---- MODULE Spec2Model ----
(***************************************************************************)
(* A model of rss_downloader.py: the RSSDownloader class (clean_filename,  *)
(* get_file_extension, download_file, parse_rss_feed, extract_audio_url,   *)
(* download_episodes) and main().                                          *)
(*                                                                         *)
(* Python strings are modelled as sequences of one-character strings, so   *)
(* that re.sub, str.strip, str.split, str.lower and str.startswith are     *)
(* computed character by character.  None is a sequence no string equals.   *)
(***************************************************************************)
EXTENDS Integers, Sequences, FiniteSets, TLC

VARIABLES
    feed_url,              \* args.feed_url (characters)
    feed,                  \* what the feed at feed_url holds (the environment)
    max_episodes,          \* args.episodes
    disk,                  \* the output directory: file name -> state of the file
    pc,                    \* position of the process
    recent_entries,        \* download_episodes: entries[:max_episodes]
    i,                     \* download_episodes: the loop index (1-based)
    successful_downloads,  \* download_episodes: the counter
    audio_url,             \* download_episodes: the loop body's audio_url
    filename,              \* download_episodes: the loop body's filename
    requests,              \* URLs requested with requests.get in the current run
    log,                   \* what the current run did with each entry it reached
    prev,                  \* the log of the previous run over the same directory
    exit_code,             \* <<>> while the process runs, then <<status>>
    run,                   \* number of the current invocation
    arg,                   \* pure-function specifications: the argument
    ret,                   \* pure-function specifications: the values returned
    calls                  \* pure-function specifications: calls made so far

vars == <<feed_url, feed, max_episodes, disk, pc, recent_entries, i,
          successful_downloads, audio_url, filename, requests, log, prev,
          exit_code, run, arg, ret, calls>>

progvars == <<feed_url, feed, max_episodes, disk, pc, recent_entries, i,
              successful_downloads, audio_url, filename, requests, log, prev,
              exit_code, run>>

purevars == <<arg, ret, calls>>

None == <<"None">>

\* ------------------------------------------------------------------ bounds
MaxLen == 4       \* longest string given to clean_filename
MaxRes == 2       \* longest enclosures / media_content / links list
MaxEntries == 2   \* most entries in a feed
MaxRuns == 2      \* invocations over the same output directory

\* ------------------------------------------------------- string primitives
\* All sequences over S of length at most n.
SeqsUpTo(S, n) == UNION {[1..k -> S] : k \in 0..n}

\* str.startswith(prefix)
StartsWith(s, prefix) ==
    /\ Len(s) >= Len(prefix)
    /\ \A k \in 1..Len(prefix) : s[k] = prefix[k]

\* c in s
Contains(s, c) == \E k \in 1..Len(s) : s[k] = c

\* Characters Python's \s and str.strip() treat as whitespace (those used here).
Whitespace == {" ", "\t", "\n"}

\* The character class [<>:"/\\|?*] of clean_filename.
Forbidden == {"<", ">", ":", "\"", "/", "\\", "|", "?", "*"}

\* re.sub(r'[<>:"/\\|?*]', "_", s)
SubForbidden(s) ==
    [k \in 1..Len(s) |-> IF s[k] \in Forbidden THEN "_" ELSE s[k]]

\* re.sub(r"\s+", " ", s): every maximal run of whitespace becomes one space.
SubWhitespace(s) ==
    LET f[k \in 0..Len(s)] ==
            IF k = 0 THEN <<>>
            ELSE IF s[k] \in Whitespace
                 THEN IF k > 1 /\ s[k-1] \in Whitespace
                      THEN f[k-1]
                      ELSE Append(f[k-1], " ")
                 ELSE Append(f[k-1], s[k])
    IN  f[Len(s)]

\* str.strip(): leading and trailing whitespace removed.
Strip(s) ==
    LET keep == {k \in 1..Len(s) : s[k] \notin Whitespace}
    IN  IF keep = {} THEN <<>>
        ELSE LET lo == CHOOSE k \in keep : \A j \in keep : k <= j
                 hi == CHOOSE k \in keep : \A j \in keep : k >= j
             IN  SubSeq(s, lo, hi)

\* re.sub(r"-+", "-", s): every maximal run of dashes becomes one dash.
SubDashes(s) ==
    LET f[k \in 0..Len(s)] ==
            IF k = 0 THEN <<>>
            ELSE IF s[k] = "-" /\ k > 1 /\ s[k-1] = "-"
                 THEN f[k-1]
                 ELSE Append(f[k-1], s[k])
    IN  f[Len(s)]

\* A variant that normalises whitespace and dashes first and replaces the
\* invalid characters, by a dash, last.
clean_filename_dash_last(name) ==
    LET a == SubDashes(Strip(SubWhitespace(name)))
    IN  [k \in 1..Len(a) |-> IF a[k] \in Forbidden THEN "-" ELSE a[k]]

\* RSSDownloader.clean_filename
clean_filename(name) ==
    SubDashes(Strip(SubWhitespace(SubForbidden(name))))

\* str.lower() on the characters used here.
LowerChar(c) ==
    CASE c = "M" -> "m"
      [] c = "P" -> "p"
      [] c = "A" -> "a"
      [] c = "C" -> "c"
      [] OTHER -> c

Lower(s) == [k \in 1..Len(s) |-> LowerChar(s[k])]

\* ------------------------------------------------------------ URLs, dates
\* First index of s holding a character of C, or Len(s) + 1.
FirstOf(s, C) ==
    LET hit == {k \in 1..Len(s) : s[k] \in C}
    IN  IF hit = {} THEN Len(s) + 1
        ELSE CHOOSE k \in hit : \A j \in hit : k <= j

\* Last index of s holding the character c, or 0.
LastOf(s, c) ==
    LET hit == {k \in 1..Len(s) : s[k] = c}
    IN  IF hit = {} THEN 0
        ELSE CHOOSE k \in hit : \A j \in hit : k >= j

SchemeLetters == {"h", "t", "p", "s", "f", "x"}

\* urlparse(url).path: the scheme up to the first ":", then the network
\* location after "//" up to the next "/", "?" or "#", are cut off the front;
\* the fragment after "#" and the query after "?" are cut off the end.
UrlPath(url) ==
    LET colon == FirstOf(url, {":"})
        hasScheme == /\ colon > 1
                     /\ colon <= Len(url)
                     /\ \A k \in 1..(colon - 1) : url[k] \in SchemeLetters
        r1 == IF hasScheme THEN SubSeq(url, colon + 1, Len(url)) ELSE url
        r2 == IF StartsWith(r1, <<"/", "/">>)
              THEN LET a == SubSeq(r1, 3, Len(r1))
                   IN  SubSeq(a, FirstOf(a, {"/", "?", "#"}), Len(a))
              ELSE r1
        r3 == SubSeq(r2, 1, FirstOf(r2, {"#"}) - 1)
    IN  SubSeq(r3, 1, FirstOf(r3, {"?"}) - 1)

\* RSSDownloader.get_file_extension
get_file_extension(url) ==
    LET path == UrlPath(url)
    IN  IF Contains(path, ".")
        THEN Lower(SubSeq(path, LastOf(path, ".") + 1, Len(path)))
        ELSE <<"m", "p", "3">>

\* A published string is modelled as its whitespace-separated words.
\* The words strptime accepts for %a, (any case-insensitive weekday
\* abbreviation, followed by the comma of the format).
WeekdayWords == {"Mon,", "Tue,", "Wed,", "Thu,", "Fri,", "Sat,", "Sun,"}

\* %d: the accepted words used here, and what %d of strftime prints.
DayOf == [w \in {"02", "2", "31"} |->
            IF w = "31" THEN <<"3", "1">> ELSE <<"0", "2">>]

\* %b: the month abbreviations, and what %m of strftime prints.
MonthOf == [w \in {"Jan", "Feb", "Jun"} |->
            CASE w = "Jan" -> <<"0", "1">>
              [] w = "Feb" -> <<"0", "2">>
              [] w = "Jun" -> <<"0", "6">>]

\* Months of the table above that have 31 days.
LongMonths == {"Jan"}

\* %Y: the accepted words used here, and what %Y of strftime prints.
YearOf == [w \in {"2006"} |-> <<"2", "0", "0", "6">>]

\* %H:%M:%S and %z: the accepted words used here ("GMT" is not a %z offset).
TimeWords == {"15:04:05"}
ZoneWords == {"-0700", "+0000", "Z"}

\* datetime.strptime(published, "%a, %d %b %Y %H:%M:%S %z") succeeds.
DateParses(published) ==
    /\ Len(published) = 6
    /\ published[1] \in WeekdayWords
    /\ published[2] \in DOMAIN DayOf
    /\ published[3] \in DOMAIN MonthOf
    /\ published[4] \in DOMAIN YearOf
    /\ published[5] \in TimeWords
    /\ published[6] \in ZoneWords
    /\ (published[2] = "31" => published[3] \in LongMonths)

\* date_obj.strftime("%Y-%m-%d")
DateStr(published) ==
    YearOf[published[4]] \o <<"-">> \o MonthOf[published[3]]
        \o <<"-">> \o DayOf[published[2]]

\* ----------------------------------------------------------- feed entries
\* A feed entry or a resource is a function from the attributes it has.
HasAttr(obj, name) == name \in DOMAIN obj

\* dict.get(name, default) / getattr(obj, name, default)
Get(obj, name, default) == IF HasAttr(obj, name) THEN obj[name] ELSE default

AudioPrefix == <<"a", "u", "d", "i", "o", "/">>

\* resource.get("type", "").startswith("audio/")
IsAudio(resource) == StartsWith(Get(resource, "type", <<>>), AudioPrefix)

\* The loop over one list: the key's value of the first audio-typed element,
\* None when the list holds none.
FirstAudio(list, key) ==
    LET hit == {k \in 1..Len(list) : IsAudio(list[k])}
    IN  IF hit = {} THEN None
        ELSE Get(list[CHOOSE k \in hit : \A j \in hit : k <= j], key, None)

\* Whether a loop over the list returns.
FindsAudio(list) == \E k \in 1..Len(list) : IsAudio(list[k])

\* hasattr(entry, name) and entry.<name>
NonEmptyAttr(entry, name) == HasAttr(entry, name) /\ Len(entry[name]) > 0

\* A variant that looks at links before media_content.
extract_audio_url_links_first(entry) ==
    IF NonEmptyAttr(entry, "enclosures") /\ FindsAudio(entry["enclosures"])
    THEN FirstAudio(entry["enclosures"], "href")
    ELSE IF NonEmptyAttr(entry, "links") /\ FindsAudio(entry["links"])
    THEN FirstAudio(entry["links"], "href")
    ELSE IF NonEmptyAttr(entry, "media_content")
            /\ FindsAudio(entry["media_content"])
    THEN FirstAudio(entry["media_content"], "url")
    ELSE None

\* RSSDownloader.extract_audio_url
extract_audio_url(entry) ==
    IF NonEmptyAttr(entry, "enclosures") /\ FindsAudio(entry["enclosures"])
    THEN FirstAudio(entry["enclosures"], "href")
    ELSE IF NonEmptyAttr(entry, "media_content")
            /\ FindsAudio(entry["media_content"])
    THEN FirstAudio(entry["media_content"], "url")
    ELSE IF NonEmptyAttr(entry, "links") /\ FindsAudio(entry["links"])
    THEN FirstAudio(entry["links"], "href")
    ELSE None

\* str(i) for the loop indices that occur.
Digits(n) ==
    LET d == <<"0", "1", "2", "3", "4", "5", "6", "7", "8", "9">>
    IN  IF n < 10 THEN <<d[n + 1]>> ELSE <<d[(n \div 10) + 1], d[(n % 10) + 1]>>

\* download_episodes: title = getattr(entry, "title", f"Episode_{i}")
TitleOf(entry, n) ==
    Get(entry, "title", <<"E", "p", "i", "s", "o", "d", "e", "_">> \o Digits(n))

\* download_episodes: the file name built for the n-th entry, whose audio URL
\* is url.
FilenameOf(entry, n, url) ==
    LET clean_title == clean_filename(TitleOf(entry, n))
        published == Get(entry, "published", <<>>)
        file_ext == get_file_extension(url)
    IN  IF Len(published) > 0 /\ DateParses(published)
        THEN DateStr(published) \o <<"_">> \o clean_title \o <<".">> \o file_ext
        ELSE clean_title \o <<".">> \o file_ext

\* entries[:n] of Python: the first n elements, or all but the last -n.
PySlicePrefix(entries, n) ==
    IF n >= 0
    THEN SubSeq(entries, 1, IF n < Len(entries) THEN n ELSE Len(entries))
    ELSE SubSeq(entries, 1, Len(entries) + n)

\* ------------------------------------------- clean_filename, called twice
\* Program variables of a specification that runs no process.
Idle ==
    /\ feed_url = <<>>
    /\ feed = <<>>
    /\ max_episodes = 0
    /\ disk = <<>>
    /\ pc = "idle"
    /\ recent_entries = <<>>
    /\ i = 0
    /\ successful_downloads = 0
    /\ audio_url = <<>>
    /\ filename = <<>>
    /\ requests = <<>>
    /\ log = <<>>
    /\ prev = <<>>
    /\ exit_code = <<>>
    /\ run = 0

\* Characters of the strings given to clean_filename: invalid characters,
\* whitespace, the dash, the replacement character and a letter.
CleanAlphabet == {":", "/", " ", "\t", "-", "_", "a"}

InitClean ==
    /\ Idle
    /\ arg \in SeqsUpTo(CleanAlphabet, MaxLen)
    /\ ret = <<>>
    /\ calls = 0

\* clean_filename(x)
CallClean ==
    /\ calls = 0
    /\ ret' = <<clean_filename(arg)>>
    /\ calls' = 1
    /\ UNCHANGED <<arg, progvars>>

\* clean_filename(clean_filename(x)): the function applied to its own result.
CallCleanAgain ==
    /\ calls = 1
    /\ ret' = Append(ret, clean_filename(ret[1]))
    /\ calls' = 2
    /\ UNCHANGED <<arg, progvars>>

NextClean == CallClean \/ CallCleanAgain

SpecClean == InitClean /\ [][NextClean]_vars

\* C7: clean_filename is idempotent: applied to its own result it returns
\* that result unchanged, for every input string.
C7_CleanIdempotent == calls = 2 => ret[2] = ret[1]

\* An input with whitespace, an invalid character and a run of dashes has
\* been cleaned twice, and the first cleaning changed it.
C7_Witness ==
    /\ calls = 2
    /\ arg = <<" ", ":", "-", "-">>
    /\ ret[1] = <<"_", "-">>

\* ------------------------------------------------------ extract_audio_url
MimeAudio == <<"a", "u", "d", "i", "o", "/", "m">>
MimeVideo == <<"v", "i", "d", "e", "o", "/", "m">>

\* The kinds of resource a list holds: audio-typed, video-typed, no type.
ResKinds == {"audio", "video", "untyped"}

\* The k-th resource of a list: its URL, unique in the entry, under the key
\* the parser uses for that list.
MkRes(kind, key, tag, k) ==
    LET url == <<tag>> \o Digits(k)
    IN  IF kind = "untyped"
        THEN [a \in {key} |-> url]
        ELSE [a \in {"type", key} |->
                IF a = key THEN url
                ELSE IF kind = "audio" THEN MimeAudio ELSE MimeVideo]

MkList(kinds, key, tag) ==
    [k \in 1..Len(kinds) |-> MkRes(kinds[k], key, tag, k)]

\* What an entry may hold for one attribute: nothing, or a list.
AttrChoices == {<<>>} \cup {<<kinds>> : kinds \in SeqsUpTo(ResKinds, MaxRes)}

MkEntry(e, m, l) ==
    LET dom == (IF Len(e) = 1 THEN {"enclosures"} ELSE {})
               \cup (IF Len(m) = 1 THEN {"media_content"} ELSE {})
               \cup (IF Len(l) = 1 THEN {"links"} ELSE {})
    IN  [a \in dom |->
            CASE a = "enclosures" -> MkList(e[1], "href", "e")
              [] a = "media_content" -> MkList(m[1], "url", "m")
              [] a = "links" -> MkList(l[1], "href", "l")]

InitExtract ==
    /\ Idle
    /\ arg \in {MkEntry(e, m, l) : e \in AttrChoices, m \in AttrChoices,
                                   l \in AttrChoices}
    /\ ret = <<>>
    /\ calls = 0

\* extract_audio_url(entry)
CallExtract ==
    /\ calls = 0
    /\ ret' = <<extract_audio_url(arg)>>
    /\ calls' = 1
    /\ UNCHANGED <<arg, progvars>>

NextExtract == CallExtract

SpecExtract == InitExtract /\ [][NextExtract]_vars

\* The three sources in priority order, each with the key of its URL.
Sources == <<<<"enclosures", "href">>, <<"media_content", "url">>,
             <<"links", "href">>>>

ListOf(entry, p) == Get(entry, Sources[p][1], <<>>)

\* The resource declares a MIME type that starts with "audio/".
DeclaresAudio(r) ==
    /\ "type" \in DOMAIN r
    /\ Len(r["type"]) >= 6
    /\ SubSeq(r["type"], 1, 6) = <<"a", "u", "d", "i", "o", "/">>

HoldsAudio(entry, p) ==
    \E k \in 1..Len(ListOf(entry, p)) : DeclaresAudio(ListOf(entry, p)[k])

\* C4: extract_audio_url returns the URL of the first audio-typed resource of
\* the highest-priority source (enclosures, media_content, links) that holds
\* one, and returns None exactly when no source holds an audio-typed resource.
C4_ExtractPriority ==
    calls = 1 =>
        /\ (ret[1] = None) <=> (\A p \in 1..3 : ~HoldsAudio(arg, p))
        /\ \A p \in 1..3 :
              (HoldsAudio(arg, p) /\ \A q \in 1..(p - 1) : ~HoldsAudio(arg, q))
              => \E k \in 1..Len(ListOf(arg, p)) :
                    /\ DeclaresAudio(ListOf(arg, p)[k])
                    /\ \A j \in 1..(k - 1) : ~DeclaresAudio(ListOf(arg, p)[j])
                    /\ ret[1] = ListOf(arg, p)[k][Sources[p][2]]

\* Enclosures hold no audio, media_content holds a video then an audio
\* resource, links hold an audio resource: the second media URL is returned.
C4_Witness ==
    /\ calls = 1
    /\ arg = MkEntry(<<<<"video", "untyped">>>>, <<<<"video", "audio">>>>,
                     <<<<"audio">>>>)
    /\ ret[1] = <<"m", "2">>

\* ------------------------------------------------------------ the process
\* Feed URLs given on the command line.
UrlHttp == <<"h", "t", "t", "p", ":", "/", "/", "f">>
UrlHttps == <<"h", "t", "t", "p", "s", ":", "/", "/", "f">>
UrlFtp == <<"f", "t", "p", ":", "/", "/", "f">>
FeedUrls == {UrlHttp, UrlHttps, UrlFtp}

\* Audio URLs: /a.MP3 on a host with a dot; /b.mp3 with a query that holds a
\* dot; a dot in a directory segment; no dot in the path.
AudioA == <<"h", ":", "/", "/", "x", ".", "c", "/", "a", ".", "M", "P", "3">>
AudioB == <<"h", ":", "/", "/", "x", "/", "b", ".", "m", "p", "3", "?", "v", ".", "1">>
AudioC == <<"h", ":", "/", "/", "x", "/", "v", ".", "1", "/", "c">>
AudioD == <<"h", ":", "/", "/", "x", ".", "c", "/", "d">>

Rfc822A == <<"Mon,", "02", "Jan", "2006", "15:04:05", "-0700">>
Rfc822B == <<"Tue,", "2", "Jan", "2006", "15:04:05", "Z">>
IsoDate == <<"2006-01-02T15:04:05Z">>

\* Entries a feed may hold.
EpA == [title |-> <<"A", ":">>, published |-> Rfc822A,
        enclosures |-> <<[type |-> MimeVideo, href |-> AudioD],
                         [type |-> MimeAudio, href |-> AudioA]>>]
\* Same cleaned title, date and extension as EpA, another audio resource.
EpA2 == [title |-> <<" ", "A", "?">>, published |-> Rfc822B,
         links |-> <<[type |-> MimeAudio, href |-> AudioB]>>]
\* No audio-typed resource.
EpNoAudio == [title |-> <<"B">>,
              enclosures |-> <<[type |-> MimeVideo, href |-> AudioA]>>,
              links |-> <<[href |-> AudioB]>>]
\* A date strptime rejects, an audio URL with a dot in a directory segment.
EpDotDir == [title |-> <<"C">>, published |-> IsoDate,
             enclosures |-> <<[type |-> MimeAudio, href |-> AudioC]>>]
\* No title, no date, audio in media_content only.
EpUntitled == [media_content |-> <<[type |-> MimeAudio, url |-> AudioD]>>]

EntryPool == {EpA, EpA2, EpNoAudio, EpDotDir, EpUntitled}

\* Files the output directory may hold before the first run.
OldFiles == {FilenameOf(EpA, 1, AudioA)}

\* The directory d with file f in state st.
WithFile(d, f, st) == [g \in (DOMAIN d) \cup {f} |-> IF g = f THEN st ELSE d[g]]

\* A variant that takes an incomplete file for a missing one.
Exists_unless_partial(d, f) == f \in DOMAIN d /\ d[f] # "partial"

\* filepath.exists()
Exists(d, f) == f \in DOMAIN d

Init ==
    /\ feed_url \in FeedUrls
    /\ feed \in SeqsUpTo(EntryPool, MaxEntries)
    /\ max_episodes \in -1..(MaxEntries + 1)
    /\ disk \in {<<>>} \cup {WithFile(<<>>, f, "old") : f \in OldFiles}
    /\ pc = "main"
    /\ recent_entries = <<>>
    /\ i = 0
    /\ successful_downloads = 0
    /\ audio_url = <<>>
    /\ filename = <<>>
    /\ requests = <<>>
    /\ log = <<>>
    /\ prev = <<>>
    /\ exit_code = <<>>
    /\ run = 1
    /\ arg = <<>>
    /\ ret = <<>>
    /\ calls = 0

\* main: args.feed_url.startswith(("http://", "https://"))
ValidScheme(url) ==
    \/ StartsWith(url, <<"h", "t", "t", "p", ":", "/", "/">>)
    \/ StartsWith(url, <<"h", "t", "t", "p", "s", ":", "/", "/">>)

\* main: the URL fails the scheme check: sys.exit(1).
MainRejectsUrl ==
    /\ pc = "main"
    /\ ~ValidScheme(feed_url)
    /\ pc' = "rejected"
    /\ exit_code' = <<1>>
    /\ UNCHANGED <<feed_url, feed, max_episodes, disk, recent_entries, i,
                   successful_downloads, audio_url, filename, requests, log,
                   prev, run, purevars>>

\* main: the URL passes; RSSDownloader(args.output) makes the directory
\* (exist_ok) and download_episodes is called.
MainStarts ==
    /\ pc = "main"
    /\ ValidScheme(feed_url)
    /\ pc' = "download_episodes"
    /\ UNCHANGED <<feed_url, feed, max_episodes, disk, recent_entries, i,
                   successful_downloads, audio_url, filename, requests, log,
                   prev, exit_code, run, purevars>>

\* parse_rss_feed: the feed's entries, or [] when feedparser raises or finds
\* no entries (a malformed feed still gives the entries recovered).
parse_rss_feed(content) == {content, <<>>}

\* download_episodes: entries is empty: "No entries found. Exiting."; main
\* returns and the process ends normally.
NoEntries ==
    /\ pc = "download_episodes"
    /\ <<>> \in parse_rss_feed(feed)
    /\ pc' = "no_entries"
    /\ exit_code' = <<0>>
    /\ UNCHANGED <<feed_url, feed, max_episodes, disk, recent_entries, i,
                   successful_downloads, audio_url, filename, requests, log,
                   prev, run, purevars>>

\* download_episodes: recent_entries = entries[:max_episodes]; the counter
\* and the loop start.
SelectEntries ==
    /\ pc = "download_episodes"
    /\ \E entries \in parse_rss_feed(feed) :
          /\ entries # <<>>
          /\ recent_entries' = PySlicePrefix(entries, max_episodes)
    /\ successful_downloads' = 0
    /\ i' = 1
    /\ pc' = "loop"
    /\ UNCHANGED <<feed_url, feed, max_episodes, disk, audio_url, filename,
                   requests, log, prev, exit_code, run, purevars>>

\* What the log keeps of one iteration: the entry's index, its audio URL and
\* file name, whether the file was there, how download_file went ("none"
\* when it was not called), what it returned, and what was added to the
\* counter.
LogEntry(url, file, existed, outcome, returned, counted) ==
    [idx |-> i, url |-> url, file |-> file, existed |-> existed,
     outcome |-> outcome, returned |-> returned, counted |-> counted]

\* if not audio_url
Falsy(url) == url = None \/ url = <<>>

\* The loop body, first part: the audio URL is extracted from the entry.
ExtractUrl ==
    /\ pc = "loop"
    /\ i <= Len(recent_entries)
    /\ audio_url' = extract_audio_url(recent_entries[i])
    /\ pc' = "extracted"
    /\ UNCHANGED <<feed_url, feed, max_episodes, disk, recent_entries, i,
                   successful_downloads, filename, requests, log, prev,
                   exit_code, run, purevars>>

\* The loop body when the entry has no audio URL: message, continue.
NoAudioUrl ==
    /\ pc = "extracted"
    /\ Falsy(audio_url)
    /\ log' = Append(log, LogEntry(None, <<>>, FALSE, "none", "none", 0))
    /\ i' = i + 1
    /\ pc' = "loop"
    /\ UNCHANGED <<feed_url, feed, max_episodes, disk, recent_entries,
                   successful_downloads, audio_url, filename, requests, prev,
                   exit_code, run, purevars>>

\* The loop body, second part: extension, date prefix, filename, filepath.
BuildPath ==
    /\ pc = "extracted"
    /\ ~Falsy(audio_url)
    /\ filename' = FilenameOf(recent_entries[i], i, audio_url)
    /\ pc' = "path"
    /\ UNCHANGED <<feed_url, feed, max_episodes, disk, recent_entries, i,
                   successful_downloads, audio_url, requests, log, prev,
                   exit_code, run, purevars>>

\* The loop body when the file is there: counted, continue.
FileExists ==
    /\ pc = "path"
    /\ Exists(disk, filename)
    /\ log' = Append(log,
                LogEntry(audio_url, filename, TRUE, "none", "none", 1))
    /\ successful_downloads' = successful_downloads + 1
    /\ i' = i + 1
    /\ pc' = "loop"
    /\ UNCHANGED <<feed_url, feed, max_episodes, disk, recent_entries,
                   audio_url, filename, requests, prev, exit_code, run,
                   purevars>>

\* How one call of download_file can go.  Caught by its except clause
\* (requests.exceptions.RequestException): an error of requests.get or
\* raise_for_status, before the file is opened, and an error of iter_content,
\* after.  Not caught: a ValueError of int(content-length) or an OSError of
\* open, before the file exists, and an OSError of f.write, after.
Caught == {"request_error", "stream_error"}
Uncaught == {"open_error", "write_error"}
Outcomes == {"ok"} \cup Caught \cup Uncaught

\* A variant that removes the partial file when the stream fails.
download_file_cleanup(d, url, file, outcome) ==
    [disk |-> CASE outcome = "ok" -> WithFile(d, file, "complete")
                [] outcome = "write_error" -> WithFile(d, file, "partial")
                [] OTHER -> d,
     requests |-> <<url>>,
     returned |-> CASE outcome = "ok" -> "true"
                    [] outcome \in Caught -> "false"
                    [] OTHER -> "raised"]

\* RSSDownloader.download_file: the request it issues, the directory
\* afterwards, and whether the call returned True, returned False or raised.
\* open(filepath, "wb") creates the file; nothing removes it.
download_file(d, url, file, outcome) ==
    [disk |-> CASE outcome = "ok" -> WithFile(d, file, "complete")
                [] outcome \in {"stream_error", "write_error"} ->
                        WithFile(d, file, "partial")
                [] OTHER -> d,
     requests |-> <<url>>,
     returned |-> CASE outcome = "ok" -> "true"
                    [] outcome \in Caught -> "false"
                    [] OTHER -> "raised"]

\* A variant that counts every download that returns.
Counted_always(n, returned) == n + 1

\* if self.download_file(...): successful_downloads += 1
Counted(n, returned) == IF returned = "true" THEN n + 1 ELSE n

\* The loop body when the file is not there and download_file returns.
Download ==
    /\ pc = "path"
    /\ ~Exists(disk, filename)
    /\ \E outcome \in Outcomes :
          LET r == download_file(disk, audio_url, filename, outcome)
              n == Counted(successful_downloads, r.returned)
          IN  /\ r.returned # "raised"
              /\ disk' = r.disk
              /\ requests' = requests \o r.requests
              /\ successful_downloads' = n
              /\ log' = Append(log,
                      LogEntry(audio_url, filename, FALSE, outcome,
                               r.returned, n - successful_downloads))
    /\ i' = i + 1
    /\ pc' = "loop"
    /\ UNCHANGED <<feed_url, feed, max_episodes, recent_entries, audio_url,
                   filename, prev, exit_code, run, purevars>>

\* The loop body when download_file raises: nothing up to main catches the
\* exception, and the interpreter ends the process with status 1.
DownloadRaises ==
    /\ pc = "path"
    /\ ~Exists(disk, filename)
    /\ \E outcome \in Outcomes :
          LET r == download_file(disk, audio_url, filename, outcome)
          IN  /\ r.returned = "raised"
              /\ disk' = r.disk
              /\ requests' = requests \o r.requests
              /\ log' = Append(log,
                      LogEntry(audio_url, filename, FALSE, outcome,
                               r.returned, 0))
    /\ pc' = "raised"
    /\ exit_code' = <<1>>
    /\ UNCHANGED <<feed_url, feed, max_episodes, recent_entries, i,
                   successful_downloads, audio_url, filename, prev, run,
                   purevars>>

\* After the loop: the summary is printed, main returns.
Summary ==
    /\ pc = "loop"
    /\ i > Len(recent_entries)
    /\ pc' = "summary"
    /\ exit_code' = <<0>>
    /\ UNCHANGED <<feed_url, feed, max_episodes, disk, recent_entries, i,
                   successful_downloads, audio_url, filename, requests, log,
                   prev, run, purevars>>

\* The script is run again, with the same arguments, feed and directory.
RunAgain ==
    /\ pc \in {"no_entries", "summary", "raised"}
    /\ run < MaxRuns
    /\ run' = run + 1
    /\ prev' = log
    /\ log' = <<>>
    /\ requests' = <<>>
    /\ pc' = "main"
    /\ exit_code' = <<>>
    /\ recent_entries' = <<>>
    /\ i' = 0
    /\ successful_downloads' = 0
    /\ audio_url' = <<>>
    /\ filename' = <<>>
    /\ UNCHANGED <<feed_url, feed, max_episodes, disk, purevars>>

Next ==
    \/ MainRejectsUrl
    \/ MainStarts
    \/ NoEntries
    \/ SelectEntries
    \/ ExtractUrl
    \/ NoAudioUrl
    \/ BuildPath
    \/ FileExists
    \/ Download
    \/ DownloadRaises
    \/ Summary
    \/ RunAgain

Spec == Init /\ [][Next]_vars

\* ------------------------------------------------------------- properties
Min(a, b) == IF a < b THEN a ELSE b
Max(a, b) == IF a > b THEN a ELSE b

\* The run has left the loop or the process has ended.
Ended == exit_code # <<>>

\* Positions of a run that selected entries.
LoopStates == {"loop", "extracted", "path", "summary", "raised"}

\* Outcomes of download_file that fail before / after the file is opened.
BeforeOpen == {"request_error", "open_error"}
AfterOpen == {"stream_error", "write_error"}

\* C1: no outcome of an entry's fetch aborts the loop: download_file returns
\* instead of raising, every selected entry is processed, and every run that
\* selected entries ends at the summary.
C1_LoopNeverAborts ==
    /\ \A k \in 1..Len(log) : log[k].returned # "raised"
    /\ (Ended /\ pc \in LoopStates) =>
            (pc = "summary" /\ Len(log) = Len(recent_entries))

\* C2: the entries considered are exactly the first min(N, len(entries))
\* entries of the feed, in feed order (none when N is not positive), for
\* every integer N.
C2_FirstMinEntries ==
    pc = "summary" =>
        /\ Len(log) = Max(0, Min(max_episodes, Len(feed)))
        /\ \A k \in 1..Len(log) :
              log[k].idx = k /\ recent_entries[k] = feed[k]

\* C3: an entry whose destination file exists when it is reached is counted
\* as succeeded, no request is issued for it and the directory is left as
\* it is.
C3_ExistingFileSkipped ==
    [][(pc = "path" /\ filename \in DOMAIN disk) =>
            /\ successful_downloads' = successful_downloads + 1
            /\ requests' = requests
            /\ disk' = disk
            /\ Len(log') = Len(log) + 1
            /\ log'[Len(log')].idx = i
            /\ i' = i + 1]_vars

\* A run has skipped an entry whose file was in the directory before the
\* first run, without any request.
C3_Witness ==
    /\ run = 1
    /\ pc = "summary"
    /\ Len(log) = 1
    /\ log[1].existed
    /\ disk[log[1].file] = "old"
    /\ successful_downloads = 1
    /\ requests = <<>>

\* Two entries of one run, the first before the second, with the same file
\* name.
Collide(j, k) ==
    /\ j < k
    /\ log[j].url # None
    /\ log[k].url # None
    /\ log[j].file = log[k].file

Skipped(rec) == rec.existed /\ rec.outcome = "none" /\ rec.counted = 1

\* C5 as stated: whatever the outcome of the first entry's fetch, the second
\* of two entries with the same file name is counted as succeeded and not
\* requested.
C5_SecondAlwaysSkipped ==
    \A j, k \in 1..Len(log) : Collide(j, k) => Skipped(log[k])

\* C5 as amended: the second entry is skipped when the first entry's file is
\* in the directory (it was there, or the first fetch succeeded or failed
\* after the file was opened); when every earlier fetch for that file name
\* failed before the file was opened, the second entry is requested from
\* its own URL.
C5_SecondSkippedIfFileCreated ==
    \A j, k \in 1..Len(log) :
        Collide(j, k) =>
            /\ (log[j].existed \/ log[j].outcome \in {"ok"} \cup AfterOpen)
                    => Skipped(log[k])
            /\ (\A m \in 1..(k - 1) :
                    log[m].file = log[k].file
                        => log[m].outcome = "request_error")
                    => /\ ~log[k].existed
                       /\ log[k].outcome # "none"
                       /\ log[k].url = extract_audio_url(recent_entries[k])
                       /\ \E n \in 1..Len(requests) : requests[n] = log[k].url

\* The first entry's fetch failed mid-stream; the second entry, with another
\* audio URL and the same file name, was skipped and counted.
C5_Witness ==
    /\ Len(log) = 2
    /\ Collide(1, 2)
    /\ log[1].url # log[2].url
    /\ log[1].outcome = "stream_error"
    /\ Skipped(log[2])
    /\ requests = <<log[1].url>>
    /\ successful_downloads = 1

\* C6: the exit status is 1 when the feed URL fails the scheme check and 0
\* on every run that passes it.
C6_ExitStatus ==
    Ended => (exit_code = <<IF ValidScheme(feed_url) THEN 0 ELSE 1>>)

\* C8: the file name of every destination path holds no path separator.
C8_NoPathSeparator == pc = "path" => ~Contains(filename, "/")

\* Entries of the log that were counted as succeeded by the claim's rule.
Succeeded == {k \in 1..Len(log) : log[k].existed \/ log[k].returned = "true"}

\* C9: in the loop the counter is at most the number of entries processed;
\* it equals the number of entries whose file existed or whose fetch returned
\* true; an entry without audio URL adds nothing to it and is part of the
\* summary's total, the number of selected entries.
C9_CounterMatchesLog ==
    pc \in LoopStates =>
        /\ Len(log) = (IF pc = "raised" THEN i ELSE i - 1)
        /\ successful_downloads <= Len(log)
        /\ successful_downloads = Cardinality(Succeeded)
        /\ \A k \in 1..Len(log) : log[k].url = None => log[k].counted = 0
        /\ pc = "summary" => Len(log) = Len(recent_entries)

\* The summary of a run of two entries: the first had no audio URL, the
\* second was fetched; 1 of 2.
C9_Witness ==
    /\ pc = "summary"
    /\ Len(recent_entries) = 2
    /\ log[1].url = None
    /\ log[2].returned = "true"
    /\ successful_downloads = 1

\* Records of the previous and of the current run.
Records == {prev[k] : k \in 1..Len(prev)} \cup {log[k] : k \in 1..Len(log)}

====
